---- MODULE Spec2Model ----
(***************************************************************************)
(* Model of the "this day in history" photo bot:                           *)
(*   main.py            - merge of two accounts, yearly selection          *)
(*   yandex_disk.py     - date extraction, find_photos_by_date             *)
(* Each part of the program has its own specification over its own         *)
(* variables; the variables of the other parts stay at their idle value.   *)
(***************************************************************************)
EXTENDS Integers, Sequences, FiniteSets, TLC

VARIABLES
    pc,                 \* position of main() between lines 104 and 158
    photos,             \* main.py: the list `photos` handed to the selection
    photos_by_year,     \* main.py:106 dict year -> list of photos
    photos_per_year,    \* main.py:117-122 quota per year (0 = not yet set)
    year_idx,           \* index of the loop of main.py:125 in sorted(keys)
    selected_photos,    \* main.py:124 selected_photos
    item,               \* yandex_disk.py:299 the record handed to _extract_date
    item_made,          \* what the fields of item were written from
    photo_date,         \* yandex_disk.py:87 the value _extract_date returned
    date_from_name,     \* yandex_disk.py:311 (None while line 311 is not reached)
    dpc,                \* "ready" before the call of _extract_date, "resolved" after
    files_api_photos,   \* yandex_disk.py:39 what _search_in_files_api returned
    folder_photos,      \* yandex_disk.py:40 what _search_in_folder returned
    photounlim_photos,  \* yandex_disk.py:41 what _search_in_photounlim returned
    found,              \* yandex_disk.py:48 what find_photos_by_date returns
    fpc,                \* "searched" before line 43, "returned" after line 48
    yandex_2,           \* main.py:39-42 TRUE when the second account is configured
    found_1,            \* main.py:54 what the first account's search returns
    found_2,            \* main.py:63 what the second account's search returns
    photos_2,           \* main.py:63 photos_2
    listing_len,        \* per listing of the account, the number of files it holds
    offset,             \* yandex_disk.py:52 offset of the running paging loop
    page_photos,        \* yandex_disk.py:51 photos of the running paging loop
    requested,          \* per listing, the offsets of the pages requested so far
    stopped,            \* per listing, what ended its loop ("" while it has not ended)
    env,                \* main.py:24-27 length of each environment value (0 = unset)
    telegram_bound,     \* main.py:36 TRUE once the local `telegram` is bound
    raised,             \* class of the exception that left the try body ("" = none)
    exit_status,        \* status the process exited with (-1 while it runs)
    network_used,       \* TRUE once an HTTP request has been made
    batch_i,            \* telegram_publisher.py:172 i of the loop of publish_photos
    success,            \* telegram_publisher.py:170 success
    calls,              \* the send operations that have returned, in order
    send_pc,            \* "idle", "first" (before the first POST), "retry", "done"
    send_op,            \* the send operation that is running
    send_batch,         \* the photos handed to the running send operation
    attempts,           \* HTTP attempts of the running send operation
    first_response,     \* the response to its first attempt
    retry_response,     \* the response to its retry
    waited,             \* seconds slept between the first attempt and the retry
    send_result         \* what the send operation returned

selVars == <<pc, photos, photos_by_year, photos_per_year, year_idx, selected_photos>>
dateVars == <<item, item_made, photo_date, date_from_name, dpc>>

findVars == <<files_api_photos, folder_photos, photounlim_photos, found, fpc>>
mergeVars == <<yandex_2, found_1, found_2, photos_2>>
pageVars == <<listing_len, offset, page_photos, requested, stopped>>
runVars == <<env, telegram_bound, raised, exit_status, network_used, batch_i, success>>
sendVars == <<send_pc, send_op, send_batch, attempts, first_response, retry_response,
              waited, send_result, calls>>
netVars == <<pageVars, runVars, sendVars>>

vars == <<selVars, dateVars, findVars, mergeVars, netVars>>

(***************************************************************************)
(* Bounds of the model.                                                    *)
(***************************************************************************)
\* largest number of distinct years in a match set
MaxYears == 13
\* the per-year contents repeat with this period once there are more years
PatternLen == 3

\* longest list one listing source of an account returns
MaxListing == 2

\* largest number of files in one listing of an account
MaxFiles == 4
\* page size of the paging loops (yandex_disk.py:53 uses 1000)
limit == 2

\* telegram_publisher.py:169
max_photos_per_group == 10

\* per-year contents <<number of disk_1 photos, number of disk_2 photos>>
Profiles == {<<1, 0>>, <<0, 2>>, <<1, 2>>, <<2, 2>>, <<4, 0>>}

Min(a, b) == IF a <= b THEN a ELSE b

(***************************************************************************)
(* Helpers on sequences.                                                   *)
(***************************************************************************)
RECURSIVE Concat(_, _, _)
\* f[1] \o f[2] \o ... \o f[n], from index i on
Concat(f, i, n) == IF i > n THEN <<>> ELSE f[i] \o Concat(f, i + 1, n)

\* the photos of one bucket of one year, in listing order
Bucket(y, src, n) == [k \in 1..n |-> [year |-> y, source |-> src, idx |-> k]]

\* a year-sorted list as main.py:90 leaves it: inside a year the disk_1
\* photos come before the disk_2 photos (list.extend, then a stable sort)
BuildPhotos(Y, base) ==
    LET P == Len(base)
        prof(i) == base[((i - 1) % P) + 1]
        ofYear == [i \in 1..Y |-> Bucket(i, "disk_1", prof(i)[1])
                                   \o Bucket(i, "disk_2", prof(i)[2])]
    IN Concat(ofYear, 1, Y)

(***************************************************************************)
(* main.py:106-111  photos_by_year                                         *)
(***************************************************************************)
YearsOf(ps) == {ps[i].year : i \in 1..Len(ps)}

GroupByYear(ps) ==
    [y \in YearsOf(ps) |-> SelectSeq(ps, LAMBDA p : p.year = y)]

RECURSIVE SortedSeq(_)
\* sorted(photos_by_year.keys())
SortedSeq(S) ==
    IF S = {} THEN <<>>
    ELSE LET m == CHOOSE x \in S : \A z \in S : x <= z
         IN <<m>> \o SortedSeq(S \ {m})

(***************************************************************************)
(* main.py:116-122  adaptive quota                                         *)
(***************************************************************************)
\* the thresholds of the earlier variant of the bot (cap 10)
PhotosPerYearOld(years_count) ==
    IF years_count <= 3 THEN 3
    ELSE IF years_count <= 5 THEN 2
    ELSE 1

\* a table that still gives 3 per year to a match set of 5 years
PhotosPerYearWide(years_count) ==
    IF years_count <= 5 THEN 3
    ELSE IF years_count <= 6 THEN 2
    ELSE 1

PhotosPerYear(years_count) ==
    IF years_count <= 4 THEN 3
    ELSE IF years_count <= 6 THEN 2
    ELSE 1

(***************************************************************************)
(* main.py:128-151  selection inside one year                              *)
(***************************************************************************)
RECURSIVE Interleave(_, _, _, _, _, _, _)
\* the loop `for i in range(photos_per_year)` from iteration i on;
\* first = the remainder of i at which disk_1 has its turn
Interleave(d1, d2, quota, i, d1_idx, d2_idx, first) ==
    IF i >= quota THEN <<>>
    ELSE IF i % 2 = first
         THEN IF d1_idx < Len(d1)
              THEN <<d1[d1_idx + 1]>>
                   \o Interleave(d1, d2, quota, i + 1, d1_idx + 1, d2_idx, first)
              ELSE IF d2_idx < Len(d2)
              THEN <<d2[d2_idx + 1]>>
                   \o Interleave(d1, d2, quota, i + 1, d1_idx, d2_idx + 1, first)
              ELSE Interleave(d1, d2, quota, i + 1, d1_idx, d2_idx, first)
         ELSE IF d2_idx < Len(d2)
              THEN <<d2[d2_idx + 1]>>
                   \o Interleave(d1, d2, quota, i + 1, d1_idx, d2_idx + 1, first)
              ELSE IF d1_idx < Len(d1)
              THEN <<d1[d1_idx + 1]>>
                   \o Interleave(d1, d2, quota, i + 1, d1_idx + 1, d2_idx, first)
              ELSE Interleave(d1, d2, quota, i + 1, d1_idx, d2_idx, first)

Disk1Of(year_photos) == SelectSeq(year_photos, LAMBDA p : p.source = "disk_1")
Disk2Of(year_photos) == SelectSeq(year_photos, LAMBDA p : p.source = "disk_2")

\* a selection that starts every year with the second account
SelectFromYearSecondFirst(year_photos, quota) ==
    Interleave(Disk1Of(year_photos), Disk2Of(year_photos), quota, 0, 0, 0, 1)

\* a selection without the fallback to the other bucket
SelectFromYearNoFallback(year_photos, quota) ==
    LET d1 == Disk1Of(year_photos)
        d2 == Disk2Of(year_photos)
        n1 == Min(Len(d1), (quota + 1) \div 2)
        n2 == Min(Len(d2), quota \div 2)
    IN Interleave(SubSeq(d1, 1, n1), <<>>, (quota + 1) \div 2, 0, 0, 0, 0)
       \o SubSeq(d2, 1, n2)

SelectFromYear(year_photos, quota) ==
    Interleave(Disk1Of(year_photos), Disk2Of(year_photos), quota, 0, 0, 0, 0)

(***************************************************************************)
(* main.py:153-156  accumulation under the cap                             *)
(***************************************************************************)
\* selected_photos.extend(selected_from_year), with the arguments swapped
ExtendSelectedFront(selected, selected_from_year) ==
    selected_from_year \o selected

ExtendSelected(selected, selected_from_year) ==
    selected \o selected_from_year

\* a loop that never checks the cap
CapNeverReached(selected) == FALSE

\* main.py:154  len(selected_photos) >= 12
CapReached(selected) == Len(selected) >= 12

\* main.py:155  selected_photos[:12]
Truncate(selected) == SubSeq(selected, 1, Min(Len(selected), 12))

(***************************************************************************)
(* Text.  A string is a sequence of one-character strings; a letter of the *)
(* Cyrillic alphabet is written c_<name>.                                  *)
(***************************************************************************)
DigitChars == <<"0", "1", "2", "3", "4", "5", "6", "7", "8", "9">>
IsDigit(c) == \E k \in 1..10 : DigitChars[k] = c
DigitValue(c) == (CHOOSE k \in 1..10 : DigitChars[k] = c) - 1

LatinChars == {"a", "j", "p", "g", "T", "Z", "I", "M", "G"}
CyrChars == {"c_ya", "c_n", "c_v", "c_f", "c_e", "c_m", "c_a", "c_r", "c_p",
             "c_i", "c_yu", "c_l", "c_g", "c_s", "c_o", "c_k", "c_t", "c_d",
             "c_j", "c_b"}

\* \w of re: letters, digits and the underscore
IsWordChar(c) == IsDigit(c) \/ c \in LatinChars \/ c \in CyrChars \/ c = "_"
\* \s of re
SpaceChars == {" "}

RECURSIVE ToInt(_)
\* int(text) of a run of digits
ToInt(ds) ==
    IF ds = <<>> THEN 0
    ELSE 10 * ToInt(SubSeq(ds, 1, Len(ds) - 1)) + DigitValue(ds[Len(ds)])

AllDigits(s, a, b) == a >= 1 /\ b <= Len(s) /\ \A k \in a..b : IsDigit(s[k])

\* %02d and %04d
Pad2(n) == <<DigitChars[((n \div 10) % 10) + 1], DigitChars[(n % 10) + 1]>>
Pad4(n) == Pad2(n \div 100) \o Pad2(n % 100)

(***************************************************************************)
(* datetime.  Optional values are sequences: None is <<>>, a value v is    *)
(* <<v>>.                                                                  *)
(***************************************************************************)
None == << >>
Some(v) == <<v>>

IsLeap(y) == (y % 4 = 0 /\ y % 100 # 0) \/ y % 400 = 0
DaysInMonth(y, m) ==
    IF m = 2 THEN (IF IsLeap(y) THEN 29 ELSE 28)
    ELSE IF m \in {4, 6, 9, 11} THEN 30 ELSE 31

\* datetime(year, month, day, hour, minute, second): None stands for ValueError
DateTime(y, m, d, h, mi, sec) ==
    IF /\ y >= 1 /\ y <= 9999 /\ m >= 1 /\ m <= 12
       /\ d >= 1 /\ d <= DaysInMonth(y, m)
       /\ h >= 0 /\ h <= 23 /\ mi >= 0 /\ mi <= 59 /\ sec >= 0 /\ sec <= 59
    THEN Some([year |-> y, month |-> m, day |-> d,
               hour |-> h, minute |-> mi, second |-> sec])
    ELSE None

\* yandex_disk.py:362 datetime.now().year on the day of the run
current_year == 2026

(***************************************************************************)
(* yandex_disk.py:303  datetime.strptime(text, '%Y:%m:%d %H:%M:%S')         *)
(***************************************************************************)
\* width of a %m, %d, %H, %M, %S field at position i: two digits if there
\* are two, else one, else none
FieldWidth(s, i) ==
    IF i <= Len(s) /\ IsDigit(s[i])
    THEN (IF i + 1 <= Len(s) /\ IsDigit(s[i + 1]) THEN 2 ELSE 1)
    ELSE 0

ExifSeparators == <<":", ":", " ", ":", ":">>

RECURSIVE StrptimeFields(_, _, _, _)
\* the fields after the year, each behind its separator; <<>> when the text
\* does not have the format
StrptimeFields(s, pos, k, acc) ==
    IF k > 5 THEN (IF pos = Len(s) + 1 THEN acc ELSE <<>>)
    ELSE IF pos <= Len(s) /\ s[pos] = ExifSeparators[k] /\ FieldWidth(s, pos + 1) > 0
         THEN LET w == FieldWidth(s, pos + 1)
              IN StrptimeFields(s, pos + 1 + w, k + 1,
                                Append(acc, ToInt(SubSeq(s, pos + 1, pos + w))))
         ELSE <<>>

Strptime(s) ==
    IF ~AllDigits(s, 1, 4) THEN None
    ELSE LET f == StrptimeFields(s, 5, 1, <<ToInt(SubSeq(s, 1, 4))>>)
         IN IF f = <<>> THEN None
            ELSE IF f[2] \in 1..12 /\ f[3] \in 1..31 /\ f[4] \in 0..23
                    /\ f[5] \in 0..59 /\ f[6] \in 0..61
            THEN DateTime(f[1], f[2], f[3], f[4], f[5], f[6])
            ELSE None

(***************************************************************************)
(* yandex_disk.py:325-342  _extract_date_from_path                         *)
(***************************************************************************)
\* yandex_disk.py:329-330, in the order of the dict
MonthPrefixes == <<
    <<"c_ya", "c_n", "c_v">>, <<"c_f", "c_e", "c_v">>, <<"c_m", "c_a", "c_r">>,
    <<"c_a", "c_p", "c_r">>, <<"c_m", "c_a", "c_ya">>, <<"c_i", "c_yu", "c_n">>,
    <<"c_i", "c_yu", "c_l">>, <<"c_a", "c_v", "c_g">>, <<"c_s", "c_e", "c_n">>,
    <<"c_o", "c_k", "c_t">>, <<"c_n", "c_o", "c_ya">>, <<"c_d", "c_e", "c_k">> >>

RECURSIVE RunEnd(_, _, _)
\* the last position of the longest run of characters of class cls from i
\* (i - 1 when s[i] is not in the class)
RunEnd(s, i, cls) ==
    IF i <= Len(s) /\ s[i] \in cls THEN RunEnd(s, i + 1, cls) ELSE i - 1

\* (\d{1,2})\s+([а-я]+)\s+(\d{4}) matched at position i: the groups, or <<>>
PathMatchAt(s, i) ==
    LET w == FieldWidth(s, i)
        sp1 == RunEnd(s, i + w, SpaceChars)
        le == RunEnd(s, sp1 + 1, CyrChars)
        sp2 == RunEnd(s, le + 1, SpaceChars)
    IN IF /\ w > 0
          /\ sp1 >= i + w
          /\ le >= sp1 + 1
          /\ sp2 >= le + 1
          /\ AllDigits(s, sp2 + 1, sp2 + 4)
       THEN <<SubSeq(s, i, i + w - 1), SubSeq(s, sp1 + 1, le),
              SubSeq(s, sp2 + 1, sp2 + 4)>>
       ELSE <<>>

\* re.search: the match at the leftmost position that has one
PathSearch(s) ==
    LET hits == {i \in 1..Len(s) : PathMatchAt(s, i) # <<>>}
    IN IF hits = {} THEN <<>>
       ELSE PathMatchAt(s, CHOOSE i \in hits : \A j \in hits : i <= j)

StartsWith(s, prefix) ==
    Len(s) >= Len(prefix) /\ SubSeq(s, 1, Len(prefix)) = prefix

extract_date_from_path(path) ==
    IF path = <<>> THEN None
    ELSE LET g == PathSearch(path)
         IN IF g = <<>> THEN None
            ELSE LET nums == {n \in 1..12 : StartsWith(g[2], MonthPrefixes[n])}
                 IN IF nums = {} THEN None
                    ELSE DateTime(ToInt(g[3]),
                                  CHOOSE n \in nums : \A k \in nums : n <= k,
                                  ToInt(g[1]), 0, 0, 0)

(***************************************************************************)
(* yandex_disk.py:344-369  _extract_date_from_filename                     *)
(***************************************************************************)
\* \b between positions i - 1 and i
WordBoundary(s, i) ==
    (i > 1 /\ i - 1 <= Len(s) /\ IsWordChar(s[i - 1]))
        # (i >= 1 /\ i <= Len(s) /\ IsWordChar(s[i]))

\* pattern k matched at position i: <<year, month, day>> as text, or <<>>
NameMatchAt(s, k, i) ==
    IF k = 1
    THEN \* \b(\d{4})-(\d{2})-(\d{2})\b
         IF /\ i + 9 <= Len(s) /\ WordBoundary(s, i) /\ WordBoundary(s, i + 10)
            /\ AllDigits(s, i, i + 3) /\ s[i + 4] = "-"
            /\ AllDigits(s, i + 5, i + 6) /\ s[i + 7] = "-"
            /\ AllDigits(s, i + 8, i + 9)
         THEN <<SubSeq(s, i, i + 3), SubSeq(s, i + 5, i + 6), SubSeq(s, i + 8, i + 9)>>
         ELSE <<>>
    ELSE IF k = 2
    THEN \* \b(\d{4})(\d{2})(\d{2})\b
         IF /\ i + 7 <= Len(s) /\ WordBoundary(s, i) /\ WordBoundary(s, i + 8)
            /\ AllDigits(s, i, i + 7)
         THEN <<SubSeq(s, i, i + 3), SubSeq(s, i + 4, i + 5), SubSeq(s, i + 6, i + 7)>>
         ELSE <<>>
    ELSE \* \b(\d{2})\.(\d{2})\.(\d{4})\b ; groups[0] has 2 characters: day first
         IF /\ i + 9 <= Len(s) /\ WordBoundary(s, i) /\ WordBoundary(s, i + 10)
            /\ AllDigits(s, i, i + 1) /\ s[i + 2] = "."
            /\ AllDigits(s, i + 3, i + 4) /\ s[i + 5] = "."
            /\ AllDigits(s, i + 6, i + 9)
         THEN <<SubSeq(s, i + 6, i + 9), SubSeq(s, i + 3, i + 4), SubSeq(s, i, i + 1)>>
         ELSE <<>>

NameSearch(s, k) ==
    LET hits == {i \in 1..Len(s) : NameMatchAt(s, k, i) # <<>>}
    IN IF hits = {} THEN <<>>
       ELSE NameMatchAt(s, k, CHOOSE i \in hits : \A j \in hits : i <= j)

\* a match whose year is brought into [1990, current_year]
AcceptedDateClamped(g) ==
    LET y == ToInt(g[1])
        clamped == IF y < 1990 THEN 1990 ELSE IF y > current_year THEN current_year ELSE y
    IN DateTime(clamped, ToInt(g[2]), ToInt(g[3]), 0, 0, 0)

\* yandex_disk.py:361-364: the date of a match if it is a calendar date
\* with 1990 <= year <= current_year, else None
AcceptedDate(g) ==
    LET date == DateTime(ToInt(g[1]), ToInt(g[2]), ToInt(g[3]), 0, 0, 0)
    IN IF date # None /\ 1990 <= date[1].year /\ date[1].year <= current_year
       THEN date ELSE None

RECURSIVE PatternLoopStopAtFailed(_, _)
\* a loop that gives up at the first pattern whose match is not accepted
PatternLoopStopAtFailed(filename, k) ==
    IF k > 3 THEN None
    ELSE LET g == NameSearch(filename, k)
         IN IF g # <<>> THEN AcceptedDate(g)
            ELSE PatternLoopStopAtFailed(filename, k + 1)

RECURSIVE PatternLoop(_, _)
\* `for pattern in patterns` from pattern k on: a match that is not
\* accepted goes on with the next pattern
PatternLoop(filename, k) ==
    IF k > 3 THEN None
    ELSE LET g == NameSearch(filename, k)
         IN IF g # <<>> /\ AcceptedDate(g) # None
            THEN AcceptedDate(g)
            ELSE PatternLoop(filename, k + 1)

extract_date_from_filename(filename) == PatternLoop(filename, 1)

(***************************************************************************)
(* yandex_disk.py:315-321  created / modified                              *)
(***************************************************************************)
RECURSIVE Before(_, _)
\* text.split(c)[0]
Before(s, c) ==
    IF s = <<>> \/ s[1] = c THEN <<>> ELSE <<s[1]>> \o Before(Tail(s), c)

\* text.replace('Z', '')
WithoutZ(s) == SelectSeq(s, LAMBDA c : c # "Z")

\* datetime.fromisoformat of YYYY-MM-DD, optionally followed by one
\* separator character and HH:MM:SS, optionally followed by -HH:MM
FromIsoFormat(s) ==
    LET dateOk == /\ Len(s) >= 10 /\ AllDigits(s, 1, 4) /\ s[5] = "-"
                  /\ AllDigits(s, 6, 7) /\ s[8] = "-" /\ AllDigits(s, 9, 10)
        timeOk == /\ Len(s) >= 19 /\ AllDigits(s, 12, 13) /\ s[14] = ":"
                  /\ AllDigits(s, 15, 16) /\ s[17] = ":" /\ AllDigits(s, 18, 19)
        zoneOk == /\ Len(s) = 25 /\ s[20] = "-" /\ AllDigits(s, 21, 22)
                  /\ s[23] = ":" /\ AllDigits(s, 24, 25)
                  /\ ToInt(SubSeq(s, 21, 22)) <= 23 /\ ToInt(SubSeq(s, 24, 25)) <= 59
        y == ToInt(SubSeq(s, 1, 4))
        m == ToInt(SubSeq(s, 6, 7))
        d == ToInt(SubSeq(s, 9, 10))
    IN IF dateOk /\ Len(s) = 10 THEN DateTime(y, m, d, 0, 0, 0)
       ELSE IF dateOk /\ timeOk /\ (Len(s) = 19 \/ zoneOk)
       THEN DateTime(y, m, d, ToInt(SubSeq(s, 12, 13)),
                     ToInt(SubSeq(s, 15, 16)), ToInt(SubSeq(s, 18, 19)))
       ELSE None

\* yandex_disk.py:316-321 for one of the two fields
FromTimestamp(text) ==
    IF text = <<>> THEN None
    ELSE FromIsoFormat(WithoutZ(Before(Before(text, "+"), ".")))

(***************************************************************************)
(* yandex_disk.py:299-323  _extract_date                                   *)
(***************************************************************************)
\* the first of the values that is not None
FirstOf(opts) ==
    LET hits == {k \in 1..Len(opts) : opts[k] # None}
    IN IF hits = {} THEN None
       ELSE opts[CHOOSE k \in hits : \A j \in hits : k <= j]

\* yandex_disk.py:300-305
ExifDate(it) ==
    IF it.exif_date_time # <<>> THEN Strptime(it.exif_date_time) ELSE None

\* the file name asked before the path
extract_date_name_first(it) ==
    FirstOf(<<ExifDate(it),
              extract_date_from_filename(it.name),
              extract_date_from_path(it.path),
              FromTimestamp(it.created),
              FromTimestamp(it.modified)>>)

extract_date(it) ==
    FirstOf(<<ExifDate(it),
              extract_date_from_path(it.path),
              extract_date_from_filename(it.name),
              FromTimestamp(it.created),
              FromTimestamp(it.modified)>>)

(***************************************************************************)
(* yandex_disk.py:30-48  find_photos_by_date                               *)
(***************************************************************************)
\* the matches of the first account: two files share a name, not a path
Disk1Files == {
    [path |-> "/x/a.jpg", name |-> "a.jpg", year |-> 2],
    [path |-> "/y/a.jpg", name |-> "a.jpg", year |-> 1],
    [path |-> "/x/b.jpg", name |-> "b.jpg", year |-> 2] }

\* the matches of the second account
Disk2Files == {
    [path |-> "/z/a.jpg", name |-> "a.jpg", year |-> 2],
    [path |-> "/z/c.jpg", name |-> "c.jpg", year |-> 1],
    [path |-> "/x/b.jpg", name |-> "b.jpg", year |-> 3] }

SeqsUpTo(S, n) == UNION {[1..k -> S] : k \in 0..n}

\* the keys of {p['path']: p for p in photos}, in insertion order
RECURSIVE PathKeys(_)
PathKeys(ps) ==
    IF ps = <<>> THEN <<>>
    ELSE LET front == SubSeq(ps, 1, Len(ps) - 1)
             keys == PathKeys(front)
         IN IF \E k \in 1..Len(keys) : keys[k] = ps[Len(ps)].path
            THEN keys
            ELSE Append(keys, ps[Len(ps)].path)

\* the value a dict comprehension leaves under a key: the last one written
LastWithPath(ps, path) ==
    ps[CHOOSE i \in 1..Len(ps) :
          /\ ps[i].path = path
          /\ \A j \in 1..Len(ps) : ps[j].path = path => j <= i]

\* a list that is handed on as it is
KeepAll(ps) == ps

\* yandex_disk.py:43  list({p['path']: p for p in photos}.values())
DedupeByPath(ps) ==
    LET keys == PathKeys(ps)
    IN [k \in 1..Len(keys) |-> LastWithPath(ps, keys[k])]

\* yandex_disk.py:44 and main.py:90  list.sort(key=year): stable
SortByYear(ps) ==
    LET years == SortedSeq(YearsOf(ps))
        ofYear == [k \in 1..Len(years) |-> SelectSeq(ps, LAMBDA p : p.year = years[k])]
    IN Concat(ofYear, 1, Len(years))

find_photos_by_date(from_files_api, from_folder, from_photounlim) ==
    SortByYear(DedupeByPath(from_files_api \o from_folder \o from_photounlim))

(***************************************************************************)
(* main.py:54-90  the two accounts                                         *)
(***************************************************************************)
\* main.py:57-58, 66-67  photo['source'] = ...
Tagged(ps, src) ==
    [k \in 1..Len(ps) |-> [path |-> ps[k].path, name |-> ps[k].name,
                           year |-> ps[k].year, source |-> src]]

RECURSIVE UniqueByNameKeepLast(_)
\* of the photos with one name the last one is kept
UniqueByNameKeepLast(ps) ==
    IF ps = <<>> THEN <<>>
    ELSE IF \E k \in 2..Len(ps) : ps[k].name = ps[1].name
         THEN UniqueByNameKeepLast(Tail(ps))
         ELSE <<ps[1]>> \o UniqueByNameKeepLast(Tail(ps))

RECURSIVE UniqueByName(_)
\* main.py:75-81  seen_names / unique_photos: the first photo of a name is kept
UniqueByName(ps) ==
    IF ps = <<>> THEN <<>>
    ELSE LET front == SubSeq(ps, 1, Len(ps) - 1)
             last == ps[Len(ps)]
         IN IF \E k \in 1..Len(front) : front[k].name = last.name
            THEN UniqueByName(front)
            ELSE Append(UniqueByName(front), last)

(***************************************************************************)
(* The records handed to _extract_date.  Every field is written from the   *)
(* date it is meant to carry; item_made keeps those dates.                 *)
(***************************************************************************)
At(y, m, d, h, mi, sec) ==
    [year |-> y, month |-> m, day |-> d, hour |-> h, minute |-> mi, second |-> sec]

\* 'YYYY:MM:DD HH:MM:SS'
ExifText(y, m, d, h, mi, sec) ==
    Pad4(y) \o <<":">> \o Pad2(m) \o <<":">> \o Pad2(d) \o <<" ">>
        \o Pad2(h) \o <<":">> \o Pad2(mi) \o <<":">> \o Pad2(sec)

\* 'YYYY-MM-DDTHH:MM:SS'
IsoText(y, m, d, h, mi, sec) ==
    Pad4(y) \o <<"-">> \o Pad2(m) \o <<"-">> \o Pad2(d) \o <<"T">>
        \o Pad2(h) \o <<":">> \o Pad2(mi) \o <<":">> \o Pad2(sec)

YmdHyphen(y, m, d) == Pad4(y) \o <<"-">> \o Pad2(m) \o <<"-">> \o Pad2(d)
YmdPlain(y, m, d) == Pad4(y) \o Pad2(m) \o Pad2(d)
DmyDotted(y, m, d) == Pad2(d) \o <<".">> \o Pad2(m) \o <<".">> \o Pad4(y)

Jpg == <<".", "j", "p", "g">>
Folder == <<"/", "a">>
June == <<"c_i", "c_yu", "c_n", "c_ya">>
MayNominative == <<"c_m", "c_a", "c_j">>
December == <<"c_d", "c_e", "c_k", "c_a", "c_b", "c_r", "c_ya">>

ExifCases == {
    [text |-> << >>, date |-> None],
    [text |-> ExifText(2019, 6, 15, 10, 30, 0), date |-> Some(At(2019, 6, 15, 10, 30, 0))],
    [text |-> ExifText(1985, 3, 2, 0, 0, 1), date |-> Some(At(1985, 3, 2, 0, 0, 1))],
    [text |-> ExifText(2024, 13, 40, 10, 0, 0), date |-> None] }

\* the folder of the file: its path is the folder, "/" and its name
FolderCases == {
    [text |-> Folder, date |-> None],
    [text |-> Folder \o <<"/">> \o Pad2(15) \o <<" ">> \o June \o <<" ">> \o Pad4(2016),
     date |-> Some(At(2016, 6, 15, 0, 0, 0))],
    [text |-> Folder \o <<"/">> \o Pad2(31) \o <<" ">> \o June \o <<" ">> \o Pad4(2016),
     date |-> None],
    [text |-> Folder \o <<"/">> \o Pad2(15) \o <<" ">> \o MayNominative \o <<" ">> \o Pad4(2016),
     date |-> None],
    [text |-> Folder \o <<"/", "3", " ", " ">> \o December \o <<" ">> \o Pad4(1985),
     date |-> Some(At(1985, 12, 3, 0, 0, 0))] }

\* matches: what the text carries for the patterns YYYY-MM-DD, YYYYMMDD and
\* DD.MM.YYYY, as <<year, month, day>>, << >> where the pattern has no match
NameCases == {
    [text |-> <<"I", "M", "G">> \o Jpg, matches |-> << <<>>, <<>>, <<>> >>],
    [text |-> YmdHyphen(2019, 6, 15) \o Jpg,
     matches |-> << <<2019, 6, 15>>, <<>>, <<>> >>],
    [text |-> YmdPlain(2018, 6, 15) \o Jpg,
     matches |-> << <<>>, <<2018, 6, 15>>, <<>> >>],
    [text |-> DmyDotted(2017, 6, 15) \o Jpg,
     matches |-> << <<>>, <<>>, <<2017, 6, 15>> >>],
    [text |-> YmdHyphen(1985, 6, 15) \o Jpg,
     matches |-> << <<1985, 6, 15>>, <<>>, <<>> >>],
    [text |-> YmdHyphen(2999, 6, 15) \o Jpg,
     matches |-> << <<2999, 6, 15>>, <<>>, <<>> >>],
    [text |-> YmdHyphen(2019, 6, 31) \o Jpg,
     matches |-> << <<2019, 6, 31>>, <<>>, <<>> >>],
    [text |-> YmdHyphen(2019, 13, 45) \o <<" ">> \o YmdPlain(2018, 6, 15) \o Jpg,
     matches |-> << <<2019, 13, 45>>, <<2018, 6, 15>>, <<>> >>],
    [text |-> YmdHyphen(1985, 6, 15) \o <<" ">> \o DmyDotted(2017, 6, 15) \o Jpg,
     matches |-> << <<1985, 6, 15>>, <<>>, <<2017, 6, 15>> >>],
    [text |-> <<"I", "M", "G", "_">> \o YmdPlain(2018, 6, 15) \o Jpg,
     matches |-> << <<>>, <<>>, <<>> >>] }

CreatedCases == {
    [text |-> << >>, date |-> None],
    [text |-> IsoText(2020, 1, 15, 10, 30, 0) \o <<"+">> \o Pad2(3) \o <<":">> \o Pad2(0),
     date |-> Some(At(2020, 1, 15, 10, 30, 0))],
    [text |-> <<"a">>, date |-> None] }

ModifiedCases == {
    [text |-> << >>, date |-> None],
    [text |-> IsoText(2021, 2, 3, 4, 5, 6) \o <<".">> \o Pad2(12) \o <<"Z">>,
     date |-> Some(At(2021, 2, 3, 4, 5, 6))] }

(***************************************************************************)
(* One call of _extract_date, as yandex_disk.py:87 makes it.               *)
(***************************************************************************)
DateIdle ==
    /\ item = << >> /\ item_made = << >> /\ photo_date = None
    /\ date_from_name = None /\ dpc = "idle"

SelIdle ==
    /\ pc = "idle" /\ photos = << >> /\ photos_by_year = << >>
    /\ photos_per_year = 0 /\ year_idx = 0 /\ selected_photos = << >>

FindIdle ==
    /\ files_api_photos = << >> /\ folder_photos = << >> /\ photounlim_photos = << >>
    /\ found = << >> /\ fpc = "idle"

MergeIdle ==
    /\ yandex_2 = FALSE /\ found_1 = << >> /\ found_2 = << >> /\ photos_2 = << >>

PageIdle ==
    /\ listing_len = << >> /\ offset = 0 /\ page_photos = << >>
    /\ requested = << >> /\ stopped = << >>

SendIdle ==
    /\ send_pc = "idle" /\ send_op = "" /\ send_batch = << >> /\ attempts = 0
    /\ first_response = None /\ retry_response = None /\ waited = 0
    /\ send_result = FALSE /\ calls = << >>

RunIdle ==
    /\ env = << >> /\ telegram_bound = FALSE /\ raised = "" /\ exit_status = -1
    /\ network_used = FALSE /\ batch_i = 0 /\ success = FALSE
    /\ SendIdle

NetIdle == PageIdle /\ RunIdle

DateInit ==
    /\ SelIdle
    /\ FindIdle
    /\ MergeIdle
    /\ NetIdle
    /\ dpc = "ready"
    /\ photo_date = None
    /\ date_from_name = None
    /\ \E e \in ExifCases, f \in FolderCases, n \in NameCases,
          c \in CreatedCases, m \in ModifiedCases :
          /\ item = [exif_date_time |-> e.text,
                     path |-> f.text \o <<"/">> \o n.text,
                     name |-> n.text,
                     created |-> c.text,
                     modified |-> m.text]
          /\ item_made = [exif |-> e.date, path |-> f.date, matches |-> n.matches,
                          created |-> c.date, modified |-> m.date]

\* yandex_disk.py:87  photo_date = self._extract_date(item)
ExtractDate ==
    /\ dpc = "ready"
    /\ photo_date' = extract_date(item)
    /\ date_from_name' =
          IF /\ ExifDate(item) = None
             /\ extract_date_from_path(item.path) = None
          THEN extract_date_from_filename(item.name)
          ELSE None
    /\ dpc' = "resolved"
    /\ UNCHANGED <<item, item_made, selVars, findVars, mergeVars, netVars>>

DateNext == ExtractDate

SpecDate == DateInit /\ [][DateNext]_vars

(***************************************************************************)
(* One call of find_photos_by_date, from line 43 on: the three searches    *)
(* have returned their lists.                                              *)
(***************************************************************************)
FindInit ==
    /\ SelIdle
    /\ DateIdle
    /\ MergeIdle
    /\ NetIdle
    /\ files_api_photos \in SeqsUpTo(Disk1Files, MaxListing)
    /\ folder_photos \in SeqsUpTo(Disk1Files, MaxListing)
    /\ photounlim_photos \in SeqsUpTo(Disk1Files, MaxListing)
    /\ found = << >>
    /\ fpc = "searched"

\* yandex_disk.py:38-48
FindPhotos ==
    /\ fpc = "searched"
    /\ found' = find_photos_by_date(files_api_photos, folder_photos, photounlim_photos)
    /\ fpc' = "returned"
    /\ UNCHANGED <<files_api_photos, folder_photos, photounlim_photos,
                   selVars, dateVars, mergeVars, netVars>>

FindNext == FindPhotos

SpecFind == FindInit /\ [][FindNext]_vars

(***************************************************************************)
(* main(), lines 54-90: the search in one or two accounts and the merge.   *)
(***************************************************************************)
MergeInit ==
    /\ DateIdle
    /\ FindIdle
    /\ NetIdle
    /\ pc = "search_1"
    /\ photos = << >>
    /\ photos_by_year = << >> /\ photos_per_year = 0 /\ year_idx = 0
    /\ selected_photos = << >>
    /\ yandex_2 \in BOOLEAN
    /\ \E l \in SeqsUpTo(Disk1Files, MaxListing) :
          found_1 = find_photos_by_date(l, <<>>, <<>>)
    /\ \E l \in SeqsUpTo(Disk2Files, MaxListing) :
          found_2 = IF yandex_2 THEN find_photos_by_date(l, <<>>, <<>>) ELSE << >>
    /\ photos_2 = << >>

\* main.py:54-58
SearchFirst ==
    /\ pc = "search_1"
    /\ photos' = Tagged(found_1, "disk_1")
    /\ pc' = "search_2"
    /\ UNCHANGED <<photos_by_year, photos_per_year, year_idx, selected_photos,
                   dateVars, findVars, mergeVars, netVars>>

\* main.py:61-67
SearchSecond ==
    /\ pc = "search_2"
    /\ yandex_2
    /\ photos_2' = Tagged(found_2, "disk_2")
    /\ pc' = "merge"
    /\ UNCHANGED <<photos, photos_by_year, photos_per_year, year_idx, selected_photos,
                   dateVars, findVars, yandex_2, found_1, found_2, netVars>>

\* a run that de-duplicates by name without a second account
NoSecondDeduped ==
    /\ pc = "search_2"
    /\ ~yandex_2
    /\ photos' = SortByYear(UniqueByName(photos))
    /\ pc' = "check"
    /\ UNCHANGED <<photos_by_year, photos_per_year, year_idx, selected_photos,
                   dateVars, findVars, mergeVars, netVars>>

\* main.py:61  no second account
NoSecond ==
    /\ pc = "search_2"
    /\ ~yandex_2
    /\ pc' = "check"
    /\ UNCHANGED <<photos, photos_by_year, photos_per_year, year_idx, selected_photos,
                   dateVars, findVars, mergeVars, netVars>>

\* main.py:70-90
MergeAccounts ==
    /\ pc = "merge"
    /\ photos_2 # << >>
    /\ photos' = SortByYear(UniqueByName(photos \o photos_2))
    /\ pc' = "check"
    /\ UNCHANGED <<photos_by_year, photos_per_year, year_idx, selected_photos,
                   dateVars, findVars, mergeVars, netVars>>

\* main.py:70  photos_2 is empty
NothingToMerge ==
    /\ pc = "merge"
    /\ photos_2 = << >>
    /\ pc' = "check"
    /\ UNCHANGED <<photos, photos_by_year, photos_per_year, year_idx, selected_photos,
                   dateVars, findVars, mergeVars, netVars>>

MergeNext == SearchFirst \/ SearchSecond \/ NoSecond \/ MergeAccounts \/ NothingToMerge

SpecMerge == MergeInit /\ [][MergeNext]_vars

(***************************************************************************)
(* The selection part of main(), lines 104-158.                            *)
(***************************************************************************)
SelInit ==
    /\ pc = "group"
    /\ \E Y \in 1..MaxYears :
         \E base \in [1..Min(Y, PatternLen) -> Profiles] :
            photos = BuildPhotos(Y, base)
    /\ photos_by_year = << >>
    /\ photos_per_year = 0
    /\ year_idx = 0
    /\ selected_photos = << >>
    /\ DateIdle
    /\ FindIdle
    /\ MergeIdle
    /\ NetIdle

\* main.py:106-111
Group ==
    /\ pc = "group"
    /\ photos_by_year' = GroupByYear(photos)
    /\ pc' = "quota"
    /\ UNCHANGED <<photos, photos_per_year, year_idx, selected_photos, dateVars, findVars, mergeVars, netVars>>

\* main.py:113-124
Quota ==
    /\ pc = "quota"
    /\ photos_per_year' = PhotosPerYear(Cardinality(DOMAIN photos_by_year))
    /\ selected_photos' = << >>
    /\ year_idx' = 1
    /\ pc' = "loop"
    /\ UNCHANGED <<photos, photos_by_year, dateVars, findVars, mergeVars, netVars>>

\* main.py:125-156: one iteration of `for year in sorted(photos_by_year.keys())`
SelectYear ==
    /\ pc = "loop"
    /\ LET years == SortedSeq(DOMAIN photos_by_year)
           year == years[year_idx]
           selected_from_year == SelectFromYear(photos_by_year[year], photos_per_year)
           extended == ExtendSelected(selected_photos, selected_from_year)
       IN IF CapReached(extended)
          THEN /\ selected_photos' = Truncate(extended)
               /\ pc' = "publish"
               /\ UNCHANGED year_idx
          ELSE /\ selected_photos' = extended
               /\ IF year_idx < Len(years)
                  THEN year_idx' = year_idx + 1 /\ pc' = "loop"
                  ELSE UNCHANGED year_idx /\ pc' = "publish"
    /\ UNCHANGED <<photos, photos_by_year, photos_per_year, dateVars, findVars, mergeVars, netVars>>

SelNext == Group \/ Quota \/ SelectYear

Init == SelInit
Next == SelNext
Spec == Init /\ [][Next]_vars

(***************************************************************************)
(* yandex_disk.py:38-41, 50-297  the three paging loops of one call of     *)
(* find_photos_by_date.  A listing is the finite list of files the server  *)
(* holds; a page is the part of it the server returns for one offset.      *)
(***************************************************************************)
\* the listings in the order find_photos_by_date reads them
Sources == <<"files_api", "folder", "photounlim">>
SourceSet == {Sources[k] : k \in 1..Len(Sources)}

\* the file at position i (from 0) of a listing: the flat listing and the
\* folder listing show the same files of the disk, /photounlim has its own;
\* hit = the file is a photo of the queried day and month with a file URL
ListedItem(src, i) ==
    [path |-> <<IF src = "photounlim" THEN "photounlim" ELSE "disk", i>>,
     name |-> <<"f", i>>,
     year |-> 1 + ((i + (IF src = "folder" THEN 1 ELSE 0)) % 2),
     hit  |-> (i % 3) # (IF src = "files_api" THEN 1 ELSE 2)]

\* the items of the response to (offset, limit)
Page(src, off) ==
    LET n == listing_len[src] - off
        len == IF n < 0 THEN 0 ELSE Min(limit, n)
    IN [k \in 1..len |-> ListedItem(src, off + k - 1)]

\* the dicts photos.append adds for the items of a page
Matches(items) ==
    LET hits == SelectSeq(items, LAMBDA it : it.hit)
    IN [k \in 1..Len(hits) |-> [path |-> hits[k].path, name |-> hits[k].name,
                                year |-> hits[k].year]]

\* the listing read after src ("searched" after the last one)
NextSource(src) ==
    IF src = "files_api" THEN "folder"
    ELSE IF src = "folder" THEN "photounlim"
    ELSE "searched"

\* `return photos` of a paging loop and photos.extend(...) of lines 39-41
EndSearch(src, result) ==
    /\ files_api_photos' = IF src = "files_api" THEN result ELSE files_api_photos
    /\ folder_photos' = IF src = "folder" THEN result ELSE folder_photos
    /\ photounlim_photos' = IF src = "photounlim" THEN result ELSE photounlim_photos
    /\ fpc' = NextSource(src)
    /\ offset' = 0
    /\ page_photos' = << >>

PageInit ==
    /\ SelIdle
    /\ DateIdle
    /\ MergeIdle
    /\ RunIdle
    /\ listing_len \in [SourceSet -> 0..MaxFiles]
    /\ offset = 0
    /\ page_photos = << >>
    /\ requested = [s \in SourceSet |-> << >>]
    /\ stopped = [s \in SourceSet |-> ""]
    /\ files_api_photos = << >> /\ folder_photos = << >> /\ photounlim_photos = << >>
    /\ found = << >>
    /\ fpc = "files_api"

\* one pass of `while True` whose response is a 2xx listing page
PageServed ==
    /\ fpc \in SourceSet
    /\ requested' = [requested EXCEPT ![fpc] = Append(@, offset)]
    /\ LET items == Page(fpc, offset)
           matched == page_photos \o Matches(items)
       IN IF items = << >>
          THEN /\ EndSearch(fpc, page_photos)
               /\ stopped' = [stopped EXCEPT ![fpc] = "empty"]
          ELSE IF Len(items) < limit
          THEN /\ EndSearch(fpc, matched)
               /\ stopped' = [stopped EXCEPT ![fpc] = "short"]
          ELSE /\ offset' = offset + limit
               /\ page_photos' = matched
               /\ UNCHANGED <<files_api_photos, folder_photos, photounlim_photos,
                              fpc, stopped>>
    /\ UNCHANGED <<listing_len, found, selVars, dateVars, mergeVars, runVars, sendVars>>

\* a transport failure that ends in fpc = "raised"
PageFailsRaising ==
    /\ fpc \in SourceSet
    /\ \E kind \in {"timeout", "status"} :
          /\ requested' = [requested EXCEPT ![fpc] = Append(@, offset)]
          /\ stopped' = [stopped EXCEPT ![fpc] = kind]
          /\ fpc' = "raised"
    /\ UNCHANGED <<listing_len, offset, page_photos, files_api_photos, folder_photos,
                   photounlim_photos, found, selVars, dateVars, mergeVars,
                   runVars, sendVars>>

\* one pass whose request times out, or is answered with a non-2xx status
\* (raise_for_status, or the 404/403 tests of the folder listings): break
PageFails ==
    /\ fpc \in SourceSet
    /\ \E kind \in {"timeout", "status"} :
          /\ requested' = [requested EXCEPT ![fpc] = Append(@, offset)]
          /\ stopped' = [stopped EXCEPT ![fpc] = kind]
          /\ EndSearch(fpc, page_photos)
    /\ UNCHANGED <<listing_len, found, selVars, dateVars, mergeVars, runVars, sendVars>>

\* one pass whose 2xx response is not what the loop body expects (an item
\* without 'name' or 'path', a body that is no JSON object): the exception
\* is no RequestException and leaves the loop and find_photos_by_date
PageMalformed ==
    /\ fpc \in SourceSet
    /\ requested' = [requested EXCEPT ![fpc] = Append(@, offset)]
    /\ stopped' = [stopped EXCEPT ![fpc] = "malformed"]
    /\ fpc' = "raised"
    /\ UNCHANGED <<listing_len, offset, page_photos, files_api_photos, folder_photos,
                   photounlim_photos, found, selVars, dateVars, mergeVars,
                   runVars, sendVars>>

PageNext == PageServed \/ PageFails \/ PageMalformed \/ FindPhotos

SpecPage == PageInit /\ [][PageNext]_vars

(***************************************************************************)
(* telegram_publisher.py:116-162, 197-297  the three send operations.      *)
(* A response is the outcome of one POST: status 0 stands for a timeout    *)
(* (no response), retry_after is the field of a 429 body.                  *)
(***************************************************************************)
Response(status, r) == [status |-> status, retry_after |-> r]

\* the responses to a first attempt
Responses ==
    {Response(200, None), Response(0, None), Response(500, None),
     Response(429, None), Response(429, Some(0)), Response(429, Some(3))}

\* the responses to a retry
RetryResponses == {Response(200, None), Response(0, None), Response(429, None)}

\* telegram_publisher.py:138, 273  .get('parameters', {}).get('retry_after', 5)
RetryAfter(response) ==
    IF response.retry_after = None THEN 5 ELSE response.retry_after[1]

\* the call of a send operation
Call(op, batch) ==
    /\ send_pc' = "first"
    /\ send_op' = op
    /\ send_batch' = batch
    /\ attempts' = 0
    /\ first_response' = None
    /\ retry_response' = None
    /\ waited' = 0
    /\ UNCHANGED <<send_result, calls>>

\* `return ok` of a send operation
Return(ok) ==
    /\ send_pc' = "done"
    /\ send_result' = ok
    /\ calls' = Append(calls, [op |-> send_op, at |-> pc, batch |-> send_batch,
                               attempts |-> attempts', first |-> first_response',
                               retry |-> retry_response', waited |-> waited',
                               result |-> ok])

\* telegram_publisher.py:128-162, 263-297: the first POST of send_message and
\* of _send_media_group, and time.sleep(retry_after + 1) after a 429
FirstPost(response) ==
    /\ attempts' = 1
    /\ first_response' = Some(response)
    /\ UNCHANGED retry_response
    /\ IF response.status = 200
       THEN UNCHANGED waited /\ Return(TRUE)
       ELSE IF response.status = 429
       THEN /\ waited' = RetryAfter(response) + 1
            /\ send_pc' = "retry"
            /\ UNCHANGED <<send_result, calls>>
       ELSE UNCHANGED waited /\ Return(FALSE)

\* telegram_publisher.py:143-149, 278-284: the POST after the sleep
RetryPost(response) ==
    /\ attempts' = attempts + 1
    /\ retry_response' = Some(response)
    /\ UNCHANGED <<first_response, waited>>
    /\ Return(response.status = 200)

\* telegram_publisher.py:216-228: the only POST of _send_single_photo
SinglePost(response) ==
    /\ attempts' = 1
    /\ first_response' = Some(response)
    /\ UNCHANGED <<retry_response, waited>>
    /\ Return(response.status = 200)

SendMessageFirst ==
    /\ send_pc = "first"
    /\ send_op = "send_message"
    /\ \E response \in Responses : FirstPost(response)
    /\ network_used' = TRUE
    /\ UNCHANGED <<send_op, send_batch, env, telegram_bound, raised, exit_status,
                   batch_i, success, selVars, dateVars, findVars, mergeVars, pageVars>>

SendMessageRetry ==
    /\ send_pc = "retry"
    /\ send_op = "send_message"
    /\ \E response \in RetryResponses : RetryPost(response)
    /\ UNCHANGED <<send_op, send_batch, runVars, selVars, dateVars, findVars,
                   mergeVars, pageVars>>

SendSinglePhoto ==
    /\ send_pc = "first"
    /\ send_op = "send_single_photo"
    /\ \E response \in Responses : SinglePost(response)
    /\ network_used' = TRUE
    /\ UNCHANGED <<send_op, send_batch, env, telegram_bound, raised, exit_status,
                   batch_i, success, selVars, dateVars, findVars, mergeVars, pageVars>>

SendMediaGroupFirst ==
    /\ send_pc = "first"
    /\ send_op = "send_media_group"
    /\ \E response \in Responses : FirstPost(response)
    /\ network_used' = TRUE
    /\ UNCHANGED <<send_op, send_batch, env, telegram_bound, raised, exit_status,
                   batch_i, success, selVars, dateVars, findVars, mergeVars, pageVars>>

SendMediaGroupRetry ==
    /\ send_pc = "retry"
    /\ send_op = "send_media_group"
    /\ \E response \in RetryResponses : RetryPost(response)
    /\ UNCHANGED <<send_op, send_batch, runVars, selVars, dateVars, findVars,
                   mergeVars, pageVars>>

(***************************************************************************)
(* main.py:22-184  one run of main().  The search and the merge of lines   *)
(* 44-90 are one step that hands over a year-sorted list or raises; the    *)
(* selection is the loop of lines 104-158 above.                           *)
(***************************************************************************)
\* len() of an environment value: unset or empty, one character short of a
\* token, a token
TokenLengths == {0, 19, 20}
ChatIdLengths == {0, 9}

\* the lists the search hands over: every year with one photo of disk_1, or
\* with one photo of disk_1 and two of disk_2
RunBases == {<< <<1, 0>> >>, << <<1, 2>> >>}

\* sys.exit(status): SystemExit is no Exception, no handler of main takes it
Exit(status) ==
    /\ pc' = "exited"
    /\ exit_status' = status

\* an exception of class cls leaves the try body
Raise(cls) ==
    /\ pc' = "except"
    /\ raised' = cls

\* telegram_publisher.py:173  photos[i:i + max_photos_per_group]
PhotoGroup(ps, i) == SubSeq(ps, i + 1, Min(i + max_photos_per_group, Len(ps)))

\* every batch goes out as a media group
SendOperationAlwaysGroup(photo_group) == "send_media_group"

\* telegram_publisher.py:183-186
SendOperation(photo_group) ==
    IF Len(photo_group) = 1 THEN "send_single_photo" ELSE "send_media_group"

RunInit ==
    /\ DateIdle
    /\ FindIdle
    /\ MergeIdle
    /\ PageIdle
    /\ SendIdle
    /\ pc = "env"
    /\ photos = << >>
    /\ photos_by_year = << >> /\ photos_per_year = 0 /\ year_idx = 0
    /\ selected_photos = << >>
    /\ env \in [yandex_token : TokenLengths, yandex_token_2 : TokenLengths,
                telegram_token : TokenLengths, telegram_chat_id : ChatIdLengths]
    /\ telegram_bound = FALSE
    /\ raised = ""
    /\ exit_status = -1
    /\ network_used = FALSE
    /\ batch_i = 0
    /\ success = FALSE

\* main.py:24-32
CheckCredentials ==
    /\ pc = "env"
    /\ IF env.yandex_token = 0 \/ env.telegram_token = 0 \/ env.telegram_chat_id = 0
       THEN Exit(1)
       ELSE pc' = "clients" /\ UNCHANGED exit_status
    /\ UNCHANGED <<photos, photos_by_year, photos_per_year, year_idx, selected_photos,
                   env, telegram_bound, raised, network_used, batch_i, success,
                   sendVars, dateVars, findVars, mergeVars, pageVars>>

\* main.py:34-42: the constructors raise ValueError for a token under 20
\* characters (yandex_disk.py:18-19, telegram_publisher.py:77-80)
InitClients ==
    /\ pc = "clients"
    /\ IF env.yandex_token < 20 \/ env.telegram_token < 20
       THEN Raise("ValueError") /\ UNCHANGED telegram_bound
       ELSE /\ telegram_bound' = TRUE
            /\ IF env.yandex_token_2 # 0 /\ env.yandex_token_2 < 20
               THEN Raise("ValueError")
               ELSE pc' = "search" /\ UNCHANGED raised
    /\ UNCHANGED <<photos, photos_by_year, photos_per_year, year_idx, selected_photos,
                   env, exit_status, network_used, batch_i, success,
                   sendVars, dateVars, findVars, mergeVars, pageVars>>

\* main.py:44-90: the searches and the merge hand over `photos`, or an
\* exception leaves them: a ValueError (response.json() of requests before
\* 2.27 on a body that is no JSON) or another Exception (a KeyError of
\* item['name'], yandex_disk.py:99)
Search ==
    /\ pc = "search"
    /\ network_used' = TRUE
    /\ \/ /\ \E Y \in 0..MaxYears : \E base \in RunBases :
                photos' = BuildPhotos(Y, base)
          /\ pc' = "check"
          /\ UNCHANGED raised
       \/ /\ \E cls \in {"ValueError", "Exception"} : Raise(cls)
          /\ UNCHANGED photos
    /\ UNCHANGED <<photos_by_year, photos_per_year, year_idx, selected_photos,
                   env, telegram_bound, exit_status, batch_i, success,
                   sendVars, dateVars, findVars, mergeVars, pageVars>>

\* main.py:92-95
NotifyEmpty ==
    /\ pc = "check"
    /\ photos = << >>
    /\ Call("send_message", << >>)
    /\ pc' = "empty_sent"
    /\ UNCHANGED <<photos, photos_by_year, photos_per_year, year_idx, selected_photos,
                   runVars, dateVars, findVars, mergeVars, pageVars>>

\* a run in which the handler of Exception takes the exit of line 99
EmptyNoticeReturnedCaught ==
    /\ pc = "empty_sent"
    /\ send_pc = "done"
    /\ IF send_result
       THEN Exit(0) /\ UNCHANGED raised
       ELSE Raise("Exception") /\ UNCHANGED exit_status
    /\ send_pc' = "idle"
    /\ UNCHANGED <<photos, photos_by_year, photos_per_year, year_idx, selected_photos,
                   env, telegram_bound, network_used, batch_i, success,
                   send_op, send_batch, attempts, first_response, retry_response,
                   waited, send_result, calls, dateVars, findVars, mergeVars, pageVars>>

\* main.py:97-102
EmptyNoticeReturned ==
    /\ pc = "empty_sent"
    /\ send_pc = "done"
    /\ IF send_result
       THEN Exit(0) /\ UNCHANGED raised
       ELSE Exit(1) /\ UNCHANGED raised
    /\ send_pc' = "idle"
    /\ UNCHANGED <<photos, photos_by_year, photos_per_year, year_idx, selected_photos,
                   env, telegram_bound, network_used, batch_i, success,
                   send_op, send_batch, attempts, first_response, retry_response,
                   waited, send_result, calls, dateVars, findVars, mergeVars, pageVars>>

\* main.py:92, 104
PhotosFound ==
    /\ pc = "check"
    /\ photos # << >>
    /\ pc' = "group"
    /\ UNCHANGED <<photos, photos_by_year, photos_per_year, year_idx, selected_photos,
                   dateVars, findVars, mergeVars, netVars>>

\* main.py:166 and telegram_publisher.py:164-181: publish_photos up to the
\* lead text of the first pass of its loop
PublishStart ==
    /\ pc = "publish"
    /\ IF selected_photos = << >>
       THEN /\ Exit(1)
            /\ UNCHANGED <<success, batch_i, sendVars>>
       ELSE /\ success' = TRUE
            /\ batch_i' = 0
            /\ Call("send_message", << >>)
            /\ pc' = "lead_sent"
            /\ UNCHANGED exit_status
    /\ UNCHANGED <<photos, photos_by_year, photos_per_year, year_idx, selected_photos,
                   env, telegram_bound, raised, network_used,
                   dateVars, findVars, mergeVars, pageVars>>

\* telegram_publisher.py:172-186: the batch of one pass of the loop; a lead
\* text that failed is logged and nothing else
SendBatch ==
    /\ \/ pc = "lead_sent" /\ send_pc = "done"
       \/ pc = "next_batch"
    /\ LET photo_group == PhotoGroup(selected_photos, batch_i)
       IN Call(SendOperation(photo_group), photo_group)
    /\ pc' = "batch_sent"
    /\ UNCHANGED <<photos, photos_by_year, photos_per_year, year_idx, selected_photos,
                   runVars, dateVars, findVars, mergeVars, pageVars>>

\* a loop that returns at the first batch that fails
BatchReturnedStopping ==
    /\ pc = "batch_sent"
    /\ send_pc = "done"
    /\ success' = (success /\ send_result)
    /\ send_pc' = "idle"
    /\ IF send_result /\ batch_i + max_photos_per_group < Len(selected_photos)
       THEN /\ batch_i' = batch_i + max_photos_per_group
            /\ pc' = "next_batch"
            /\ UNCHANGED exit_status
       ELSE /\ Exit(IF success' THEN 0 ELSE 1)
            /\ UNCHANGED batch_i
    /\ UNCHANGED <<photos, photos_by_year, photos_per_year, year_idx, selected_photos,
                   env, telegram_bound, raised, network_used,
                   send_op, send_batch, attempts, first_response, retry_response,
                   waited, send_result, calls, dateVars, findVars, mergeVars, pageVars>>

\* telegram_publisher.py:188-195 and main.py:168-172: the result of a batch,
\* the next pass of the loop or the return of publish_photos
BatchReturned ==
    /\ pc = "batch_sent"
    /\ send_pc = "done"
    /\ success' = (success /\ send_result)
    /\ send_pc' = "idle"
    /\ IF batch_i + max_photos_per_group < Len(selected_photos)
       THEN /\ batch_i' = batch_i + max_photos_per_group
            /\ pc' = "next_batch"
            /\ UNCHANGED exit_status
       ELSE /\ Exit(IF success' THEN 0 ELSE 1)
            /\ UNCHANGED batch_i
    /\ UNCHANGED <<photos, photos_by_year, photos_per_year, year_idx, selected_photos,
                   env, telegram_bound, raised, network_used,
                   send_op, send_batch, attempts, first_response, retry_response,
                   waited, send_result, calls, dateVars, findVars, mergeVars, pageVars>>

\* main.py:174-176
HandleValueError ==
    /\ pc = "except"
    /\ raised = "ValueError"
    /\ Exit(1)
    /\ UNCHANGED <<photos, photos_by_year, photos_per_year, year_idx, selected_photos,
                   env, telegram_bound, raised, network_used, batch_i, success,
                   sendVars, dateVars, findVars, mergeVars, pageVars>>

\* a handler that exits without a word
HandleExceptionSilent ==
    /\ pc = "except"
    /\ raised = "Exception"
    /\ Exit(1)
    /\ UNCHANGED <<photos, photos_by_year, photos_per_year, year_idx, selected_photos,
                   env, telegram_bound, raised, network_used, batch_i, success,
                   sendVars, dateVars, findVars, mergeVars, pageVars>>

\* main.py:177-181
HandleException ==
    /\ pc = "except"
    /\ raised = "Exception"
    /\ IF telegram_bound
       THEN /\ Call("send_message", << >>)
            /\ pc' = "failure_sent"
            /\ UNCHANGED exit_status
       ELSE /\ Exit(1)
            /\ UNCHANGED sendVars
    /\ UNCHANGED <<photos, photos_by_year, photos_per_year, year_idx, selected_photos,
                   env, telegram_bound, raised, network_used, batch_i, success,
                   dateVars, findVars, mergeVars, pageVars>>

\* main.py:182-184: whatever send_message returned, sys.exit(1)
FailureNoticeReturned ==
    /\ pc = "failure_sent"
    /\ send_pc = "done"
    /\ Exit(1)
    /\ send_pc' = "idle"
    /\ UNCHANGED <<photos, photos_by_year, photos_per_year, year_idx, selected_photos,
                   env, telegram_bound, raised, network_used, batch_i, success,
                   send_op, send_batch, attempts, first_response, retry_response,
                   waited, send_result, calls, dateVars, findVars, mergeVars, pageVars>>

RunNext ==
    \/ CheckCredentials \/ InitClients \/ Search
    \/ NotifyEmpty \/ EmptyNoticeReturned \/ PhotosFound
    \/ Group \/ Quota \/ SelectYear
    \/ PublishStart \/ SendBatch \/ BatchReturned
    \/ HandleValueError \/ HandleException \/ FailureNoticeReturned
    \/ SendMessageFirst \/ SendMessageRetry \/ SendSinglePhoto
    \/ SendMediaGroupFirst \/ SendMediaGroupRetry

SpecRun == RunInit /\ [][RunNext]_vars

(***************************************************************************)
(* Vocabulary of the claims about the selection.                           *)
(***************************************************************************)
\* the years present in the match set, and how many there are
MatchYears == YearsOf(photos)
NYears == Cardinality(MatchYears)

\* number of photos of year y (of source src) in a list
CountYear(ps, y) == Cardinality({i \in 1..Len(ps) : ps[i].year = y})
CountYearSrc(ps, y, src) ==
    Cardinality({i \in 1..Len(ps) : ps[i].year = y /\ ps[i].source = src})

\* the part of a list that belongs to year y, in the order of the list
SliceOf(ps, y) == SelectSeq(ps, LAMBDA p : p.year = y)

\* the quota table as the specification states it
StatedQuota(Y) == IF Y <= 4 THEN 3 ELSE IF Y <= 6 THEN 2 ELSE 1

RECURSIVE SumOver(_, _)
\* sum of f[y] over the years in S
SumOver(f, S) ==
    IF S = {} THEN 0
    ELSE LET y == CHOOSE x \in S : TRUE IN f[y] + SumOver(f, S \ {y})

\* what the quotas let through: sum over the years of min(quota, matches)
QuotaSum ==
    SumOver([y \in MatchYears |-> Min(StatedQuota(NYears), CountYear(photos, y))],
            MatchYears)

\* the years whose iteration of the loop of main.py:125 has run
ProcessedYears ==
    LET years == SortedSeq(MatchYears)
    IN IF pc = "loop" THEN {years[k] : k \in 1..(year_idx - 1)}
       ELSE IF pc = "publish" THEN {years[k] : k \in 1..year_idx}
       ELSE {}

Done == pc = "publish"

(***************************************************************************)
(* C1: the selection never holds more than 12 photos (the cap), whatever   *)
(* the number of years, of photos per year and of sources.                 *)
(***************************************************************************)
C1_AtMostCap == Len(selected_photos) <= 12

\* a match set of 13 years or more, cut down to 12 photos
C1_Witness == Done /\ NYears >= 13 /\ Len(selected_photos) = 12

(***************************************************************************)
(* C2 as stated: the selection holds at least min(12, total matches).      *)
(***************************************************************************)
C2_AtLeastMinCapTotal ==
    Done => Len(selected_photos) >= Min(12, Len(photos))

(***************************************************************************)
(* C2 amended: the selection holds at least min(12, sum over the years of  *)
(* min(quota, matches of that year)) photos.                               *)
(***************************************************************************)
C2_AtLeastQuotaSum ==
    Done => Len(selected_photos) >= Min(12, QuotaSum)

\* a year with more matches than the quota: fewer than min(12, total) selected
C2_Witness ==
    /\ Done
    /\ Len(selected_photos) < Min(12, Len(photos))
    /\ Len(selected_photos) = Min(12, QuotaSum)

(***************************************************************************)
(* C3: the quota is 3 for Y <= 4 years, 2 for 5 <= Y <= 6, 1 for Y >= 7;   *)
(* no year contributes more than the quota; per-year counts 3, 1, 2 are    *)
(* selected in full, 6 photos ordered by year.                             *)
(***************************************************************************)
C3_QuotaTable ==
    /\ pc \in {"loop", "publish"} => photos_per_year = StatedQuota(NYears)
    /\ \A y \in MatchYears :
          CountYear(selected_photos, y) <= StatedQuota(NYears)
    /\ ( /\ Done
         /\ NYears = 3
         /\ LET years == SortedSeq(MatchYears)
            IN [k \in 1..3 |-> CountYear(photos, years[k])] = <<3, 1, 2>> )
       => /\ Len(selected_photos) = 6
          /\ {selected_photos[i] : i \in 1..6} = {photos[i] : i \in 1..6}
          /\ [i \in 1..6 |-> selected_photos[i].year]
               = [i \in 1..6 |-> photos[i].year]

\* the scenario of the specification: three years with 3, 1 and 2 matches
C3_Witness ==
    /\ Done
    /\ NYears = 3
    /\ LET years == SortedSeq(MatchYears)
       IN [k \in 1..3 |-> CountYear(photos, years[k])] = <<3, 1, 2>>
    /\ photos_per_year = 3
    /\ Len(selected_photos) = 6

(***************************************************************************)
(* What C4 says of the slice of year y in the selection.                   *)
(***************************************************************************)
\* position j of the slice has the source whose turn it is, or the other
\* one when that bucket is exhausted
TurnSource(slice, j, n1, n2) ==
    LET taken1 == Cardinality({k \in 1..(j - 1) : slice[k].source = "disk_1"})
        taken2 == Cardinality({k \in 1..(j - 1) : slice[k].source = "disk_2"})
    IN IF j % 2 = 1
       THEN IF taken1 < n1 THEN "disk_1" ELSE "disk_2"
       ELSE IF taken2 < n2 THEN "disk_2" ELSE "disk_1"

SliceAsClaimed(y) ==
    LET slice == SliceOf(selected_photos, y)
        ofYear == SliceOf(photos, y)
        n1 == CountYearSrc(photos, y, "disk_1")
        n2 == CountYearSrc(photos, y, "disk_2")
        q == StatedQuota(NYears)
        s1 == SelectSeq(slice, LAMBDA p : p.source = "disk_1")
        s2 == SelectSeq(slice, LAMBDA p : p.source = "disk_2")
    IN /\ Len(slice) = Min(q, n1 + n2)
       \* alternation with fallback
       /\ \A j \in 1..Len(slice) : slice[j].source = TurnSource(slice, j, n1, n2)
       \* each bucket in its listing order
       /\ s1 = SubSeq(Disk1Of(ofYear), 1, Len(s1))
       /\ s2 = SubSeq(Disk2Of(ofYear), 1, Len(s2))
       \* quota 2, both sources present
       /\ (q = 2 /\ n1 >= 1 /\ n2 >= 1)
            => [j \in 1..Len(slice) |-> slice[j].source] = <<"disk_1", "disk_2">>
       \* a single source
       /\ (n1 = 0 \/ n2 = 0) => slice = SubSeq(ofYear, 1, Min(q, n1 + n2))

(***************************************************************************)
(* C4 as stated: every year of the match set contributes its alternating   *)
(* slice of exactly min(quota, n) photos.                                  *)
(***************************************************************************)
C4_EveryYearContributes ==
    Done => \A y \in MatchYears : SliceAsClaimed(y)

(***************************************************************************)
(* C4 amended: every year the loop reaches before the cap of 12 stops it   *)
(* (all years for Y <= 12, the 12 earliest years otherwise) contributes    *)
(* its alternating slice of exactly min(quota, n) photos: disk_1 first,    *)
(* each bucket in listing order, the other bucket when one is exhausted;   *)
(* [disk_1, disk_2] for quota 2 with both sources; the first min(quota, n) *)
(* matches of the year with a single source.                               *)
(***************************************************************************)
C4_ReachedYearContributes ==
    \A y \in ProcessedYears : SliceAsClaimed(y)

\* a year with one disk_1 and two disk_2 photos under quota 3: the third
\* pick falls back to disk_2
C4_Witness ==
    /\ Done
    /\ photos_per_year = 3
    /\ \E y \in ProcessedYears :
         /\ CountYearSrc(photos, y, "disk_1") = 1
         /\ CountYearSrc(photos, y, "disk_2") = 2
         /\ LET slice == SliceOf(selected_photos, y)
            IN [j \in 1..Len(slice) |-> slice[j].source]
                 = <<"disk_1", "disk_2", "disk_2">>

(***************************************************************************)
(* C5: the selection is grouped by ascending year (the years of            *)
(* consecutive photos never decrease, so each year is contiguous), and     *)
(* inside a year the photos stand in the order the loop picked them.       *)
(***************************************************************************)
C5_GroupedByYear ==
    /\ \A i \in 1..Len(selected_photos) : \A j \in 1..Len(selected_photos) :
          i < j => selected_photos[i].year <= selected_photos[j].year
    /\ pc \in {"loop", "publish"} =>
          LET years == SortedSeq(ProcessedYears)
              picked == [k \in 1..Len(years) |->
                            SelectFromYear(photos_by_year[years[k]], photos_per_year)]
              all == Concat(picked, 1, Len(years))
          IN selected_photos = SubSeq(all, 1, Min(Len(all), 12))

\* several years selected, one of them with photos of both sources
C5_Witness ==
    /\ Done
    /\ Cardinality({selected_photos[i].year : i \in 1..Len(selected_photos)}) >= 3
    /\ \E i \in 1..(Len(selected_photos) - 1) :
          /\ selected_photos[i].year = selected_photos[i + 1].year
          /\ selected_photos[i].source # selected_photos[i + 1].source

(***************************************************************************)
(* Vocabulary of the claims about _extract_date.                           *)
(***************************************************************************)
Resolved == dpc = "resolved"

\* filename matches <<year, month, day>>: a calendar date, a year in range
IsCalendarDate(g) ==
    g[1] >= 1 /\ g[2] \in 1..12 /\ g[3] >= 1 /\ g[3] <= DaysInMonth(g[1], g[2])
YearInRange(g) == 1990 <= g[1] /\ g[1] <= current_year
PassesValidation(g) == g # <<>> /\ IsCalendarDate(g) /\ YearInRange(g)
MatchDate(g) == At(g[1], g[2], g[3], 0, 0, 0)

\* the first pattern, in the order YYYY-MM-DD, YYYYMMDD, DD.MM.YYYY, whose
\* match passes validation gives the date
NameDateSkippingFailed(matches) ==
    LET ok == {k \in 1..3 : PassesValidation(matches[k])}
    IN IF ok = {} THEN None
       ELSE Some(MatchDate(matches[CHOOSE k \in ok : \A j \in ok : k <= j]))

\* the first pattern that matches text decides: its date, or no-result
NameDateStoppingAtFailed(matches) ==
    LET hit == {k \in 1..3 : matches[k] # <<>>}
    IN IF hit = {} THEN None
       ELSE LET g == matches[CHOOSE k \in hit : \A j \in hit : k <= j]
            IN IF PassesValidation(g) THEN Some(MatchDate(g)) ELSE None

\* EXIF and path gave nothing, so the filename strategy is asked
NameStrategyReached == item_made.exif = None /\ item_made.path = None

\* some pattern matches the filename with a year outside [1990, current_year]
HasOutOfRangeMatch ==
    \E k \in 1..3 : item_made.matches[k] # <<>> /\ ~YearInRange(item_made.matches[k])

(***************************************************************************)
(* C6: the strategies are tried in the order EXIF, path, filename,         *)
(* created, modified and the first that succeeds gives the result: a       *)
(* parseable EXIF date_time wins whatever the other fields are, and        *)
(* without EXIF a date in the path wins over a date in the filename.       *)
(***************************************************************************)
C6_PriorityOrder ==
    Resolved =>
        /\ item_made.exif # None => photo_date = item_made.exif
        /\ (item_made.exif = None /\ item_made.path # None)
              => photo_date = item_made.path
        /\ photo_date = FirstOf(<<item_made.exif,
                                  item_made.path,
                                  NameDateSkippingFailed(item_made.matches),
                                  item_made.created,
                                  item_made.modified>>)

\* no EXIF, a date in the path and another, valid one in the filename
C6_Witness ==
    /\ Resolved
    /\ item.exif_date_time = << >>
    /\ item_made.path # None
    /\ NameDateSkippingFailed(item_made.matches) # None
    /\ NameDateSkippingFailed(item_made.matches) # item_made.path
    /\ photo_date = item_made.path

(***************************************************************************)
(* C7 as stated: a record whose filename matches a date pattern with a     *)
(* year outside [1990, current_year] resolves to no date at all (read in   *)
(* its favour: of the records for which the filename strategy is asked).   *)
(***************************************************************************)
C7_OutOfRangeGivesNoResult ==
    (Resolved /\ HasOutOfRangeMatch /\ NameStrategyReached) => photo_date = None

(***************************************************************************)
(* C7 amended: a filename match with a year outside [1990, current_year]   *)
(* is discarded, never clamped: the filename strategy returns no-result or *)
(* the in-range date of a later pattern, and _extract_date returns         *)
(* no-result exactly when EXIF, path, the other filename patterns, created *)
(* and modified give no date either.                                       *)
(***************************************************************************)
C7_OutOfRangeDiscarded ==
    (Resolved /\ HasOutOfRangeMatch) =>
        /\ \A k \in 1..3 :
              LET g == item_made.matches[k]
              IN (NameStrategyReached /\ g # <<>> /\ ~YearInRange(g)) =>
                    date_from_name \notin
                        { Some(MatchDate(g)),
                          Some(At(1990, g[2], g[3], 0, 0, 0)),
                          Some(At(current_year, g[2], g[3], 0, 0, 0)) }
        /\ date_from_name # None =>
              (1990 <= date_from_name[1].year /\ date_from_name[1].year <= current_year)
        /\ photo_date = None <=>
              /\ item_made.exif = None
              /\ item_made.path = None
              /\ NameDateSkippingFailed(item_made.matches) = None
              /\ item_made.created = None
              /\ item_made.modified = None

\* only the filename carries a date, of 1985: the created timestamp is returned
C7_Witness ==
    /\ Resolved
    /\ HasOutOfRangeMatch
    /\ NameStrategyReached
    /\ date_from_name = None
    /\ item_made.created # None
    /\ photo_date = item_made.created

(***************************************************************************)
(* C8 as stated: the patterns are tried in the order YYYY-MM-DD, YYYYMMDD, *)
(* DD.MM.YYYY, and a pattern whose match fails validation ends the         *)
(* strategy with no-result.                                                *)
(***************************************************************************)
C8_StopsAtFailedMatch ==
    (Resolved /\ NameStrategyReached) =>
        date_from_name = NameDateStoppingAtFailed(item_made.matches)

(***************************************************************************)
(* C8 amended: the patterns are tried in the order YYYY-MM-DD, YYYYMMDD,   *)
(* DD.MM.YYYY; a pattern whose match fails validation is skipped and the   *)
(* subsequent patterns are still tried; the strategy returns the date of   *)
(* the first pattern whose match passes validation, no-result if none.     *)
(***************************************************************************)
C8_FailedMatchSkipped ==
    (Resolved /\ NameStrategyReached) =>
        date_from_name = NameDateSkippingFailed(item_made.matches)

\* YYYY-MM-DD matches an invalid date, YYYYMMDD a valid one, which is returned
C8_Witness ==
    /\ Resolved
    /\ NameStrategyReached
    /\ item_made.matches[1] # <<>>
    /\ ~PassesValidation(item_made.matches[1])
    /\ PassesValidation(item_made.matches[2])
    /\ date_from_name = Some(MatchDate(item_made.matches[2]))

(***************************************************************************)
(* Vocabulary of the claims about find_photos_by_date and the merge.       *)
(***************************************************************************)
Listing == files_api_photos \o folder_photos \o photounlim_photos

\* the position at which a path is first listed (0 when it is not)
FirstListed(ps, path) ==
    LET at == {i \in 1..Len(ps) : ps[i].path = path}
    IN IF at = {} THEN 0 ELSE CHOOSE i \in at : \A j \in at : i <= j

AscendingYears(ps) ==
    \A i \in 1..Len(ps) : \A j \in 1..Len(ps) : i < j => ps[i].year <= ps[j].year

NamesOf(ps) == {ps[i].name : i \in 1..Len(ps)}

\* the list main holds at line 69, before the de-duplication
BothAccounts == Tagged(found_1, "disk_1") \o Tagged(found_2, "disk_2")

\* the position of the first photo of a name in a list
FirstNamed(ps, name) ==
    CHOOSE i \in 1..Len(ps) :
        ps[i].name = name /\ \A j \in 1..Len(ps) : ps[j].name = name => i <= j

(***************************************************************************)
(* C9: find_photos_by_date returns every listed path once and never twice, *)
(* sorted by ascending year, same-year matches in the order in which they  *)
(* were first listed.                                                      *)
(***************************************************************************)
C9_UniquePathsSorted ==
    fpc = "returned" =>
        /\ \A i \in 1..Len(found) : \A j \in 1..Len(found) :
              i # j => found[i].path # found[j].path
        /\ {found[i].path : i \in 1..Len(found)} = {Listing[i].path : i \in 1..Len(Listing)}
        /\ AscendingYears(found)
        /\ \A i \in 1..Len(found) : \A j \in 1..Len(found) :
              (i < j /\ found[i].year = found[j].year)
                 => FirstListed(Listing, found[i].path) < FirstListed(Listing, found[j].path)

\* a path listed by two sources, and a listing that the sort reorders
C9_Witness ==
    /\ fpc = "returned"
    /\ Len(found) < Len(Listing)
    /\ Len(found) = 3
    /\ ~AscendingYears(Listing)

(***************************************************************************)
(* C10 as stated: when a second account is configured, the list main holds *)
(* after the merge step has no two photos with the same name, the copy of  *)
(* a name that is kept is the first one encountered (disk_1 before         *)
(* disk_2), and the list is sorted by ascending year.                      *)
(***************************************************************************)
C10_NoSameNameWhenConfigured ==
    (pc = "check" /\ yandex_2) =>
        /\ \A i \in 1..Len(photos) : \A j \in 1..Len(photos) :
              i # j => photos[i].name # photos[j].name
        /\ AscendingYears(photos)

(***************************************************************************)
(* C10 amended: when a second account is configured and its search         *)
(* returns at least one match, the merged list has no two photos with the  *)
(* same name: of the photos with one name only the first one encountered   *)
(* is kept, the one of disk_1 when both accounts have the name; after the  *)
(* merge the list is sorted by ascending year.                             *)
(***************************************************************************)
C10_NoSameNameAfterMerge ==
    (pc = "check" /\ yandex_2 /\ found_2 # << >>) =>
        /\ \A i \in 1..Len(photos) : \A j \in 1..Len(photos) :
              i # j => photos[i].name # photos[j].name
        /\ NamesOf(photos) = NamesOf(BothAccounts)
        /\ \A i \in 1..Len(photos) :
              photos[i] = BothAccounts[FirstNamed(BothAccounts, photos[i].name)]
        /\ \A i \in 1..Len(photos) :
              photos[i].name \in NamesOf(found_1) => photos[i].source = "disk_1"
        /\ AscendingYears(photos)

\* a name that both accounts have: the copy of disk_1 is in the merged list
C10_Witness ==
    /\ pc = "check"
    /\ yandex_2
    /\ \E n \in NamesOf(found_1) \cap NamesOf(found_2) :
          \E i \in 1..Len(photos) : photos[i].name = n /\ photos[i].source = "disk_1"
    /\ \E i \in 1..Len(photos) : photos[i].source = "disk_2"
    /\ Len(photos) < Len(BothAccounts)

(***************************************************************************)
(* C17: in the selection loop the running total never exceeds 12 after a   *)
(* year's contribution is appended, so the cut to 12 removes nothing: each *)
(* iteration appends the whole contribution min(quota, matches of the      *)
(* year) behind what was selected; the loop leaves before the last year    *)
(* only with exactly 12 photos; with 13 years or more the selection is     *)
(* exactly one photo of each of the 12 earliest years and none of a later  *)
(* year.                                                                   *)
(***************************************************************************)
\* the year whose iteration of the loop of main.py:125 runs next
CurrentYear == SortedSeq(MatchYears)[year_idx]

C17_RunningTotalWithinCap ==
    /\ [][pc = "loop" =>
            /\ Len(selected_photos') =
                  Len(selected_photos) + Min(photos_per_year, CountYear(photos, CurrentYear))
            /\ Len(selected_photos') <= 12
            /\ SubSeq(selected_photos', 1, Len(selected_photos)) = selected_photos
            /\ (pc' = "publish" /\ year_idx < NYears) => Len(selected_photos') = 12]_vars
    /\ [](Done /\ NYears >= 13 =>
            LET years == SortedSeq(MatchYears)
            IN /\ Len(selected_photos) = 12
               /\ \A k \in 1..NYears :
                     CountYear(selected_photos, years[k]) = IF k <= 12 THEN 1 ELSE 0)

\* 13 years or more, several photos in some of the first 12, and the loop
\* left at the 12th year
C17_Witness ==
    /\ Done
    /\ NYears >= 13
    /\ year_idx = 12
    /\ Len(photos) > NYears
    /\ \A k \in 1..12 : selected_photos[k].year = k

(***************************************************************************)
(* C18: the de-duplication by name runs only when the second account       *)
(* returned at least one match: then of the primary-account photos with    *)
(* one name only the earliest is left; when the second account is not      *)
(* configured or returns no match, the list handed to the selection is the *)
(* primary list as found, photos with equal names and different paths      *)
(* included.                                                               *)
(***************************************************************************)
C18_NameDedupeOnlyAfterSecondMatch ==
    pc = "check" =>
        LET primary == Tagged(found_1, "disk_1")
        IN IF yandex_2 /\ found_2 # << >>
           THEN \A n \in NamesOf(primary) :
                   SelectSeq(photos, LAMBDA p : p.name = n)
                      = <<primary[FirstNamed(primary, n)]>>
           ELSE photos = primary

\* the primary account has two paths with one name the second account does
\* not have, and the merge left one of them
C18_Witness ==
    /\ pc = "check"
    /\ yandex_2
    /\ found_2 # << >>
    /\ \E n \in NamesOf(found_1) \ NamesOf(found_2) :
          /\ Len(SelectSeq(found_1, LAMBDA p : p.name = n)) = 2
          /\ Len(SelectSeq(photos, LAMBDA p : p.name = n)) = 1

(***************************************************************************)
(* Vocabulary of the claims about the paging loops.                        *)
(***************************************************************************)
\* what the loop of a listing returned to find_photos_by_date
ResultOf(s) ==
    IF s = "files_api" THEN files_api_photos
    ELSE IF s = "folder" THEN folder_photos
    ELSE photounlim_photos

\* the number of items the server has from offset off on, one page at most
ItemsAt(s, off) ==
    IF listing_len[s] - off <= 0 THEN 0 ELSE Min(limit, listing_len[s] - off)

\* the matches among the first m files of a listing
HitsBefore(s, m) ==
    Matches([i \in 1..Min(m, listing_len[s]) |-> ListedItem(s, i - 1)])

TransportFailure(s) == stopped[s] \in {"timeout", "status"}

(***************************************************************************)
(* C11: each paging loop requests the offsets 0, limit, 2*limit, ... and   *)
(* stops at the first page that is empty, shorter than limit, or fails in  *)
(* transport; it makes at most (length of the listing) div limit + 1       *)
(* requests, so it terminates on a finite listing; a transport failure     *)
(* raises nothing: the loop returns the matches of the pages before it and *)
(* find_photos_by_date reads the remaining listings.                       *)
(***************************************************************************)
C11_PagingStopsAndReturns ==
    /\ \A j \in 1..Len(Sources) :
          LET s == Sources[j]
              offs == requested[s]
              n == Len(offs)
          IN /\ \A k \in 1..n : offs[k] = (k - 1) * limit
             /\ n <= (listing_len[s] \div limit) + 1
             /\ \A k \in 1..(n - 1) : ItemsAt(s, offs[k]) = limit
             /\ (stopped[s] = "" /\ n >= 1) => ItemsAt(s, offs[n]) = limit
             /\ stopped[s] # "" => n >= 1
             /\ stopped[s] = "empty" => ItemsAt(s, offs[n]) = 0
             /\ stopped[s] = "short" =>
                   (0 < ItemsAt(s, offs[n]) /\ ItemsAt(s, offs[n]) < limit)
             /\ stopped[s] \in {"empty", "short"} =>
                   ResultOf(s) = HitsBefore(s, listing_len[s])
             /\ TransportFailure(s) => ResultOf(s) = HitsBefore(s, offs[n])
             /\ (stopped[s] \in {"empty", "short", "timeout", "status"}) =>
                   IF j < Len(Sources)
                   THEN fpc = Sources[j + 1] \/ requested[Sources[j + 1]] # << >>
                   ELSE fpc \in {"searched", "returned"}
    /\ fpc = "raised" => \E s \in SourceSet : stopped[s] = "malformed"

\* the flat listing times out at its second page and its first page's
\* matches are returned; the folder listing ends with a short page, the
\* /photounlim listing with an empty page after two full ones
C11_Witness ==
    /\ fpc = "returned"
    /\ stopped["files_api"] = "timeout"
    /\ requested["files_api"] = <<0, limit>>
    /\ files_api_photos # << >>
    /\ Len(files_api_photos) < Len(HitsBefore("files_api", listing_len["files_api"]))
    /\ stopped["folder"] = "short" /\ Len(requested["folder"]) = 2
    /\ stopped["photounlim"] = "empty" /\ Len(requested["photounlim"]) = 3
    /\ Len(found) > Len(files_api_photos)

(***************************************************************************)
(* Vocabulary of the claims about the run of main and the sending.         *)
(***************************************************************************)
Exited == pc = "exited"

CallsOf(op) == SelectSeq(calls, LAMBDA c : c.op = op)
PhotoCalls == SelectSeq(calls, LAMBDA c : c.op # "send_message")

\* the first attempt of a returned send operation got a 429 with retry_after
RateLimitedWith(c) == c.first[1].status = 429 /\ c.first[1].retry_after # None

\* what the claim says of a send operation whose first attempt got a 429
\* carrying retry_after = r
RetriedOnce(c) ==
    /\ c.attempts = 2
    /\ c.waited >= c.first[1].retry_after[1] + 1
    /\ c.result = (c.retry[1].status = 200)

(***************************************************************************)
(* C12 as stated: a send operation (send_message, _send_single_photo or    *)
(* _send_media_group) whose first attempt gets a 429 with retry_after = r  *)
(* makes exactly one retry after waiting at least r + 1 seconds and        *)
(* returns what the retry gives; no send operation makes more than two     *)
(* HTTP attempts.                                                          *)
(***************************************************************************)
C12_EverySendRetriesOnce ==
    \A k \in 1..Len(calls) :
        /\ calls[k].attempts <= 2
        /\ RateLimitedWith(calls[k]) => RetriedOnce(calls[k])

(***************************************************************************)
(* C12, what the code does: send_message and _send_media_group retry once  *)
(* after a 429 as stated, _send_single_photo makes one attempt and returns *)
(* failure on a 429; no send operation makes more than two attempts.       *)
(***************************************************************************)
C12_RetryOnceButSinglePhoto ==
    \A k \in 1..Len(calls) :
        /\ calls[k].attempts <= 2
        /\ IF calls[k].op = "send_single_photo"
           THEN calls[k].attempts = 1 /\ calls[k].result = (calls[k].first[1].status = 200)
           ELSE RateLimitedWith(calls[k]) => RetriedOnce(calls[k])

\* a single photo answered with 429 and retry_after = 3: one attempt, no wait,
\* failure; and a text message that was retried once with success
C12_Witness ==
    \E k \in 1..Len(calls) : \E m \in 1..Len(calls) :
        /\ calls[k].op = "send_single_photo"
        /\ calls[k].first = Some(Response(429, Some(3)))
        /\ calls[k].attempts = 1
        /\ calls[k].waited = 0
        /\ ~calls[k].result
        /\ calls[m].op = "send_message"
        /\ calls[m].first = Some(Response(429, Some(3)))
        /\ calls[m].attempts = 2 /\ calls[m].waited = 4 /\ calls[m].result

\* the run took the branch of main.py:92: no photo after the merge
ZeroMatchRun ==
    \/ pc = "check" /\ photos = << >>
    \/ pc = "empty_sent"
    \/ \E k \in 1..Len(calls) : calls[k].at = "empty_sent"

\* publish_photos has returned to main and main has exited
Published == Exited /\ selected_photos # << >>

\* ceil(n / 10)
NBatches(n) == (n + 9) \div 10

\* a required environment value is unset or empty
MissingCredentials ==
    env.yandex_token = 0 \/ env.telegram_token = 0 \/ env.telegram_chat_id = 0

(***************************************************************************)
(* C13: when the search yields zero matches after the merge, the run       *)
(* calls send_message exactly once and makes no photo-send call:           *)
(* publish_photos is never entered, main exits after the one notice,       *)
(* whether it was delivered or not.                                        *)
(***************************************************************************)
C13_ZeroMatchesOneNotice ==
    ZeroMatchRun =>
        /\ PhotoCalls = << >>
        /\ Len(CallsOf("send_message")) <= 1
        /\ pc \in {"check", "empty_sent", "exited"}
        /\ selected_photos = << >>
        /\ Exited =>
              /\ Len(calls) = 1
              /\ calls[1].op = "send_message"
              /\ exit_status = IF calls[1].result THEN 0 ELSE 1

\* the notice of a run without matches fails after its retry: exit status 1
\* and no other message
C13_Witness ==
    /\ Exited
    /\ ZeroMatchRun
    /\ Len(calls) = 1
    /\ calls[1].attempts = 2
    /\ ~calls[1].result
    /\ exit_status = 1

(***************************************************************************)
(* C14: publish_photos sends a selection of n >= 1 photos in ceil(n/10)    *)
(* consecutive batches of at most 10, in order, after the lead text: the   *)
(* k-th photo call carries the photos 10(k-1)+1 .. min(10k, n) of the      *)
(* selection, a batch of one photo goes out with _send_single_photo, any   *)
(* other with _send_media_group.                                           *)
(***************************************************************************)
C14_ConsecutiveBatches ==
    LET n == Len(selected_photos)
    IN /\ Len(PhotoCalls) <= NBatches(n)
       /\ \A k \in 1..Len(PhotoCalls) :
             LET c == PhotoCalls[k]
             IN /\ c.batch = SubSeq(selected_photos, 10 * (k - 1) + 1, Min(10 * k, n))
                /\ 1 <= Len(c.batch) /\ Len(c.batch) <= 10
                /\ c.op = IF Len(c.batch) = 1 THEN "send_single_photo"
                          ELSE "send_media_group"
       /\ PhotoCalls # << >> =>
             (calls[1].op = "send_message" /\ calls[1].at = "lead_sent")
       /\ Published => Len(PhotoCalls) = NBatches(n)

\* 11 photos: a media group of 10, then the 11th photo alone
C14_Witness ==
    /\ Published
    /\ Len(selected_photos) = 11
    /\ Len(PhotoCalls) = 2
    /\ PhotoCalls[1].op = "send_media_group" /\ Len(PhotoCalls[1].batch) = 10
    /\ PhotoCalls[2].op = "send_single_photo"
    /\ PhotoCalls[2].batch = <<selected_photos[11]>>

(***************************************************************************)
(* C15: a failed send fails that send only: whatever the lead text and     *)
(* the earlier batches returned, also after an exhausted retry, every      *)
(* batch of the selection is attempted, and publish_photos reports         *)
(* failure (exit status 1 of main) exactly when a photo batch failed.      *)
(***************************************************************************)
C15_FailedSendDoesNotStop ==
    /\ Published =>
          /\ \A k \in 1..NBatches(Len(selected_photos)) :
                \E m \in 1..Len(calls) :
                    /\ calls[m].at = "batch_sent"
                    /\ calls[m].batch # << >>
                    /\ calls[m].batch[1] = selected_photos[10 * (k - 1) + 1]
          /\ success = (\A m \in 1..Len(PhotoCalls) : PhotoCalls[m].result)
          /\ exit_status = IF \E m \in 1..Len(PhotoCalls) : ~PhotoCalls[m].result
                           THEN 1 ELSE 0
    /\ (pc \in {"next_batch", "batch_sent"} \/ Published) => calls[1].at = "lead_sent"

\* the lead text and the first batch fail after their retries, the second
\* batch is sent all the same and succeeds; the run reports failure
C15_Witness ==
    /\ Published
    /\ Len(calls) = 3
    /\ calls[1].at = "lead_sent" /\ calls[1].attempts = 2 /\ ~calls[1].result
    /\ calls[2].at = "batch_sent" /\ calls[2].attempts = 2 /\ ~calls[2].result
    /\ calls[3].at = "batch_sent" /\ calls[3].result
    /\ exit_status = 1

(***************************************************************************)
(* C16 as stated: whenever an error escapes the search, merge, selection   *)
(* or publish steps, one failure notification is attempted through         *)
(* send_message, its result is ignored and the process exits non-zero;     *)
(* missing required credentials exit non-zero before any network call.     *)
(***************************************************************************)
C16_EveryEscapedErrorNotified ==
    /\ (Exited /\ raised # "" /\ network_used) =>
          /\ exit_status = 1
          /\ Len(calls) = 1
          /\ calls[1].op = "send_message" /\ calls[1].at = "failure_sent"
    /\ (Exited /\ MissingCredentials) => (exit_status = 1 /\ ~network_used)

(***************************************************************************)
(* C16 amended: an error other than a ValueError that escapes the steps of *)
(* main is caught by the outermost handler, one failure notification is    *)
(* attempted through send_message, its result is ignored and the process   *)
(* exits non-zero; a ValueError is caught by a handler of its own and the  *)
(* process exits non-zero without any notification; missing required       *)
(* credentials exit non-zero before any network call.                      *)
(***************************************************************************)
C16_EscapedErrorNotifiedUnlessValueError ==
    /\ raised # "" => pc \in {"except", "failure_sent", "exited"}
    /\ (Exited /\ raised = "Exception") =>
          /\ exit_status = 1
          /\ Len(calls) = 1
          /\ calls[1].op = "send_message" /\ calls[1].at = "failure_sent"
    /\ (Exited /\ raised = "ValueError") => (exit_status = 1 /\ calls = << >>)
    /\ (Exited /\ MissingCredentials) => (exit_status = 1 /\ ~network_used)

\* the search raises, the failure notification fails too, the run exits 1
C16_Witness ==
    /\ Exited
    /\ raised = "Exception"
    /\ network_used
    /\ Len(calls) = 1
    /\ calls[1].at = "failure_sent"
    /\ ~calls[1].result
    /\ exit_status = 1

====
